---------------------------- MODULE Spec2Model ----------------------------
(***************************************************************************)
(* Model of the network-change monitor of src/monitoring/monitoring.go:    *)
(* StartMonitoring (the masked entry point), its three handlers and send.  *)
(*                                                                         *)
(* One monitoring session is one goroutine.  Its position is pc:           *)
(*   "start"         before the switch on flag                             *)
(*   "AddrSubscribe" "LinkSubscribe" "RouteSubscribe" "LinkList"           *)
(*                   before the setup call of that name                    *)
(*   "loop"          in the for/select loop; c > 0 means the session is    *)
(*                   blocked inside send(c) on the unbuffered channel      *)
(*   "returned"      StartMonitoring has returned                          *)
(* The notification source, the host's interface table and the consumer    *)
(* of c are the environment: their outputs are drawn with \E.              *)
(***************************************************************************)
EXTENDS Integers, Sequences, FiniteSets

VARIABLES
    entry,         \* the entry point called: "StartMonitoring" (masked) or
                   \* "startMonitoring" (unmasked)
    flag,          \* the flag argument of StartMonitoring
    pc,            \* position of the session
    link,          \* the three booleans set by the switch
    addr,
    route,
    done,          \* doneLink/doneAddr/doneRoute: "none", "open" or "closed"
    setup,         \* history: the setup calls made, each with its outcome
    subscribed,    \* classes whose netlink subscription was established
    enumerated,    \* netlink.LinkList() has been called
    links,         \* the names netlink.LinkList() returned
    interfaces,    \* keys of the map interfaces      (Existence Set)
    newlyCreated,  \* keys of the map newlyCreated    (Newly-Created Set)
    c,             \* sends on c the session has started and not completed
    received,      \* GenericEvents the consumer has received from c
    log,           \* history: one entry per notification taken by the select
    ch,            \* chLink/chAddr/chRoute: the notifications a subscription
                   \* has received and not yet handed over, oldest first
    host,          \* names of the interfaces that exist on the host
    born           \* history: names created on the host while the link
                   \* subscription was established

vars == <<entry, flag, pc, link, addr, route, done, setup, subscribed,
          enumerated, links, interfaces, newlyCreated, c, received, log,
          ch, host, born>>

session == <<entry, flag, pc, link, addr, route, done, setup, subscribed,
             enumerated, links, interfaces, newlyCreated, c, received, log>>

\* The streams and the host, which the specifications that draw every
\* notification at the select leave alone.
streams == <<ch, host, born>>

-----------------------------------------------------------------------------
(* Bounds and input sets *)

\* Notifications taken from the three streams in one behaviour.
MaxEvents == 3

\* Interface names of the host.
Names == {"eth0", "eth9"}

\* Values of the flag argument: the seven documented ones and three others.
Flags == {-1, 0, 1, 2, 3, 4, 5, 6, 7, 8}

Classes == {"link", "addr", "route"}

\* netlink.LinkUpdate: Header.Type, Link.Attrs().Name, Flags&net.FlagUp != 0.
\* The flags are read only in the RTM_NEWLINK branch, so the other types are
\* drawn with the flag clear.
LinkUpdates ==
    [Type : {"RTM_NEWLINK"}, Name : Names, Up : BOOLEAN]
        \cup [Type : {"RTM_DELLINK", "RTM_SETLINK"}, Name : Names, Up : {FALSE}]

\* netlink.AddrUpdate: NewAddr.  LinkIndex is only handed to
\* net.InterfaceByIndex, whose outcome the host decides (err below).
AddrUpdates == [NewAddr : BOOLEAN]

\* netlink.RouteUpdate: Type.
RouteUpdates == [Type : {"RTM_NEWROUTE", "RTM_DELROUTE", "RTM_GETROUTE"}]

-----------------------------------------------------------------------------
(* The code *)

\* Faulty variant of the switch: the default case does not return.
FlagSwitchNoDefaultReturn(f) ==
    [link |-> f \in {1, 3, 5, 7}, addr |-> f \in {2, 3, 6, 7},
     route |-> f \in {4, 5, 6, 7}, valid |-> TRUE]

\* Faulty variant of the switch: case 5 sets addr instead of link.
FlagSwitchFiveSetsAddr(f) ==
    [link |-> f \in {1, 3, 7}, addr |-> f \in {2, 3, 5, 6, 7},
     route |-> f \in {4, 5, 6, 7}, valid |-> f \in 1..7]

\* The switch on flag: which classes are monitored, and whether the flag is
\* one of the cases (the default case returns).
FlagSwitch(f) ==
    CASE f = 1 -> [link |-> TRUE,  addr |-> FALSE, route |-> FALSE, valid |-> TRUE]
      [] f = 2 -> [link |-> FALSE, addr |-> TRUE,  route |-> FALSE, valid |-> TRUE]
      [] f = 3 -> [link |-> TRUE,  addr |-> TRUE,  route |-> FALSE, valid |-> TRUE]
      [] f = 4 -> [link |-> FALSE, addr |-> FALSE, route |-> TRUE,  valid |-> TRUE]
      [] f = 5 -> [link |-> TRUE,  addr |-> FALSE, route |-> TRUE,  valid |-> TRUE]
      [] f = 6 -> [link |-> FALSE, addr |-> TRUE,  route |-> TRUE,  valid |-> TRUE]
      [] f = 7 -> [link |-> TRUE,  addr |-> TRUE,  route |-> TRUE,  valid |-> TRUE]
      [] OTHER -> [link |-> FALSE, addr |-> FALSE, route |-> FALSE, valid |-> FALSE]

\* send(c): one GenericEvent put on c; n counts the sends of the handler.
send(n) == n + 1

\* Faulty variants of handleLinkUpdate, one fault each:
\*   "no send"      the suppressed down returns without send(c)
\*   "keeps newly"  the delete leaves the name in newlyCreated
\*   "keeps known"  the delete leaves the name in interfaces
\*   "up keeps"     the up branch leaves the name in newlyCreated
\*   "no suppress"  the down is printed for a newly created interface too
\*   "add known"    the add leaves newlyCreated as it is
FaultyLinkUpdate(updateLink, ifs, nc, fault) ==
    LET name == updateLink.Name IN
    IF updateLink.Type = "RTM_DELLINK"
    THEN [interfaces |-> IF fault = "keeps known" THEN ifs ELSE ifs \ {name},
          newlyCreated |-> IF fault = "keeps newly" THEN nc ELSE nc \ {name},
          printed |-> "Interface removed", sends |-> 1]
    ELSE IF name \notin ifs /\ updateLink.Type = "RTM_NEWLINK"
    THEN [interfaces |-> ifs \cup {name},
          newlyCreated |-> IF fault = "add known" THEN nc ELSE nc \cup {name},
          printed |-> "Interface added", sends |-> 1]
    ELSE IF updateLink.Type = "RTM_NEWLINK"
    THEN IF updateLink.Up
         THEN [interfaces |-> ifs,
               newlyCreated |-> IF fault = "up keeps" THEN nc ELSE nc \ {name},
               printed |-> "is up", sends |-> 1]
         ELSE IF name \notin nc \/ fault = "no suppress"
         THEN [interfaces |-> ifs, newlyCreated |-> nc,
               printed |-> "is down", sends |-> 1]
         ELSE [interfaces |-> ifs, newlyCreated |-> nc,
               printed |-> "", sends |-> IF fault = "no send" THEN 0 ELSE 1]
    ELSE [interfaces |-> ifs, newlyCreated |-> nc, printed |-> "", sends |-> 1]

handleLinkUpdateNoSend(updateLink, ifs, nc) ==
    FaultyLinkUpdate(updateLink, ifs, nc, "no send")

handleLinkUpdateKeepsNewly(updateLink, ifs, nc) ==
    FaultyLinkUpdate(updateLink, ifs, nc, "keeps newly")

handleLinkUpdateKeepsKnown(updateLink, ifs, nc) ==
    FaultyLinkUpdate(updateLink, ifs, nc, "keeps known")

handleLinkUpdateUpKeeps(updateLink, ifs, nc) ==
    FaultyLinkUpdate(updateLink, ifs, nc, "up keeps")

handleLinkUpdateNoSuppress(updateLink, ifs, nc) ==
    FaultyLinkUpdate(updateLink, ifs, nc, "no suppress")

handleLinkUpdateAddKnown(updateLink, ifs, nc) ==
    FaultyLinkUpdate(updateLink, ifs, nc, "add known")

\* handleLinkUpdate: the two maps afterwards, the line printed ("" for none)
\* and the number of sends on c.
handleLinkUpdate(updateLink, ifs, nc) ==
    LET name == updateLink.Name IN
    IF updateLink.Type = "RTM_DELLINK"
    THEN [interfaces |-> ifs \ {name}, newlyCreated |-> nc \ {name},
          printed |-> "Interface removed", sends |-> send(0)]
    ELSE IF name \notin ifs /\ updateLink.Type = "RTM_NEWLINK"
    THEN [interfaces |-> ifs \cup {name}, newlyCreated |-> nc \cup {name},
          printed |-> "Interface added", sends |-> send(0)]
    ELSE IF updateLink.Type = "RTM_NEWLINK"
    THEN IF updateLink.Up
         THEN [interfaces |-> ifs, newlyCreated |-> nc \ {name},
               printed |-> "is up", sends |-> send(0)]
         ELSE IF name \notin nc
         THEN [interfaces |-> ifs, newlyCreated |-> nc,
               printed |-> "is down", sends |-> send(0)]
         ELSE [interfaces |-> ifs, newlyCreated |-> nc,
               printed |-> "", sends |-> send(0)]
    ELSE [interfaces |-> ifs, newlyCreated |-> nc,
          printed |-> "", sends |-> send(0)]

\* Faulty variant of handleAddrUpdate: the error branch sends too.
handleAddrUpdateSendsOnError(updateAddr, err) ==
    IF err
    THEN [printed |-> "removed from the deleted interface", sends |-> 1]
    ELSE IF updateAddr.NewAddr
    THEN [printed |-> "New address added", sends |-> 1]
    ELSE [printed |-> "Address removed", sends |-> 1]

\* handleAddrUpdate: err is the outcome of net.InterfaceByIndex.
handleAddrUpdate(updateAddr, err) ==
    IF err
    THEN [printed |-> "removed from the deleted interface", sends |-> 0]
    ELSE IF updateAddr.NewAddr
    THEN [printed |-> "New address added", sends |-> send(0)]
    ELSE [printed |-> "Address removed", sends |-> send(0)]

\* handleRouteUpdate.
handleRouteUpdate(updateRoute) ==
    IF updateRoute.Type = "RTM_NEWROUTE"
    THEN [printed |-> "New route added", sends |-> send(0)]
    ELSE IF updateRoute.Type = "RTM_DELROUTE"
    THEN [printed |-> "Route removed", sends |-> send(0)]
    ELSE [printed |-> "", sends |-> send(0)]

-----------------------------------------------------------------------------
(* The session *)

Sets == [interfaces |-> interfaces, newlyCreated |-> newlyCreated]

\* The state before the first statement of the entry point.
Fresh ==
    /\ pc = "start"
    /\ link = FALSE
    /\ addr = FALSE
    /\ route = FALSE
    /\ done = [k \in Classes |-> "none"]
    /\ setup = <<>>
    /\ subscribed = {}
    /\ enumerated = FALSE
    /\ links = {}
    /\ interfaces = {}
    /\ newlyCreated = {}
    /\ c = 0
    /\ received = 0
    /\ log = <<>>

\* No notification is offered; the host is not modelled.
NoStreams ==
    /\ ch = [k \in Classes |-> <<>>]
    /\ host = {}
    /\ born = {}

\* A call of StartMonitoring(c, flag).
Init ==
    /\ entry = "StartMonitoring"
    /\ flag \in Flags
    /\ Fresh
    /\ NoStreams

\* Faulty variant of the return: the done channels are left open.
ReturnNoClose ==
    /\ pc' = "returned"
    /\ UNCHANGED done

\* A return after the three defers are registered: the done channels close.
Return ==
    /\ pc' = "returned"
    /\ done' = [k \in Classes |-> "closed"]

\* The switch, then the creation of the channels and the three defers.
Start ==
    /\ pc = "start"
    /\ LET sw == FlagSwitch(flag) IN
       IF sw.valid
       THEN /\ link' = sw.link
            /\ addr' = sw.addr
            /\ route' = sw.route
            /\ done' = [k \in Classes |-> "open"]
            /\ pc' = "AddrSubscribe"
       ELSE /\ pc' = "returned"
            /\ UNCHANGED <<link, addr, route, done>>
    /\ UNCHANGED <<entry, flag, setup, subscribed, enumerated, links,
                   interfaces, newlyCreated, c, received, log>>

\* Faulty variant of a subscribe call: a failure is logged and the setup goes
\* on with the next step.
SubscribeIgnoresError(at, class, next) ==
    /\ pc = at
    /\ \E err \in BOOLEAN :
          /\ setup' = Append(setup, [call |-> at, err |-> err])
          /\ subscribed' = IF err THEN subscribed ELSE subscribed \cup {class}
          /\ pc' = next
          /\ UNCHANGED done
    /\ UNCHANGED <<entry, flag, link, addr, route, enumerated, links,
                   interfaces, newlyCreated, c, received, log>>

\* One subscribe call: at, the position before it; class, what it subscribes
\* to; next, the position after it.
Subscribe(at, class, next) ==
    /\ pc = at
    /\ \E err \in BOOLEAN :
          /\ setup' = Append(setup, [call |-> at, err |-> err])
          /\ IF err
             THEN /\ Return
                  /\ UNCHANGED subscribed
             ELSE /\ subscribed' = subscribed \cup {class}
                  /\ pc' = next
                  /\ UNCHANGED done
    /\ UNCHANGED <<entry, flag, link, addr, route, enumerated, links,
                   interfaces, newlyCreated, c, received, log>>

AddrSubscribe == Subscribe("AddrSubscribe", "addr", "LinkSubscribe")

LinkSubscribe == Subscribe("LinkSubscribe", "link", "RouteSubscribe")

RouteSubscribe == Subscribe("RouteSubscribe", "route", "LinkList")

\* The two maps are made, then the existing links are put into interfaces.
LinkList ==
    /\ pc = "LinkList"
    /\ enumerated' = TRUE
    /\ \E err \in BOOLEAN, ls \in SUBSET Names :
          /\ setup' = Append(setup, [call |-> "LinkList", err |-> err])
          /\ IF err
             THEN /\ Return
                  /\ UNCHANGED <<links, interfaces, newlyCreated>>
             ELSE /\ links' = ls
                  /\ interfaces' = ls
                  /\ newlyCreated' = {}
                  /\ pc' = "loop"
                  /\ UNCHANGED done
    /\ UNCHANGED <<entry, flag, link, addr, route, subscribed, c, received,
                   log>>

\* Faulty variant of the select: a notification is taken while a send on c
\* is pending (as if c were buffered).
AtSelectWhileSending == pc = "loop" /\ Len(log) < MaxEvents

\* The select can take a notification: the session is in the loop and not
\* inside a send.
AtSelect == pc = "loop" /\ c = 0 /\ Len(log) < MaxEvents

Entry(class, update, handled, resolved, r, post) ==
    [class |-> class, update |-> update, handled |-> handled,
     resolved |-> resolved, printed |-> r.printed, sends |-> r.sends,
     pre |-> Sets, post |-> post]

\* A notification of a disabled class: the case body does nothing.  The loop
\* drops it without reading it, so the history keeps its class alone.
NotHandled == [printed |-> "", sends |-> 0]

Dropped(class) ==
    Entry(class, [Type |-> "dropped"], FALSE, FALSE, NotHandled, Sets)

\* case updateLink := <-chLink
RecvLink(updateLink) ==
    /\ AtSelect
    /\ "link" \in subscribed
    /\ IF link
       THEN LET r == handleLinkUpdate(updateLink, interfaces, newlyCreated) IN
            /\ interfaces' = r.interfaces
            /\ newlyCreated' = r.newlyCreated
            /\ c' = r.sends
            /\ log' = Append(log, Entry("link", updateLink, TRUE, TRUE, r,
                        [interfaces |-> r.interfaces,
                         newlyCreated |-> r.newlyCreated]))
       ELSE /\ UNCHANGED <<interfaces, newlyCreated, c>>
            /\ log' = Append(log, Dropped("link"))
    /\ UNCHANGED <<entry, flag, pc, link, addr, route, done, setup, subscribed,
                   enumerated, links, received>>

\* Faulty variant of the address case: an address whose interface cannot be
\* resolved empties newlyCreated.
RecvAddrForgetsNewly(updateAddr) ==
    /\ AtSelect
    /\ "addr" \in subscribed
    /\ IF addr
       THEN \E err \in BOOLEAN :
               LET r == handleAddrUpdate(updateAddr, err) IN
               /\ c' = r.sends
               /\ newlyCreated' = IF err THEN {} ELSE newlyCreated
               /\ log' = Append(log, Entry("addr", updateAddr, TRUE, ~err, r,
                                           Sets))
       ELSE /\ UNCHANGED <<c, newlyCreated>>
            /\ log' = Append(log, Dropped("addr"))
    /\ UNCHANGED <<entry, flag, pc, link, addr, route, done, setup, subscribed,
                   enumerated, links, interfaces, received>>

\* case updateAddr := <-chAddr
RecvAddr(updateAddr) ==
    /\ AtSelect
    /\ "addr" \in subscribed
    /\ IF addr
       THEN \E err \in BOOLEAN :
               LET r == handleAddrUpdate(updateAddr, err) IN
               /\ c' = r.sends
               /\ log' = Append(log, Entry("addr", updateAddr, TRUE, ~err, r,
                                           Sets))
       ELSE /\ UNCHANGED c
            /\ log' = Append(log, Dropped("addr"))
    /\ UNCHANGED <<entry, flag, pc, link, addr, route, done, setup, subscribed,
                   enumerated, links, interfaces, newlyCreated, received>>

\* Faulty variant of the route case: the handler is called whatever route is.
RecvRouteUngated(updateRoute) ==
    /\ AtSelect
    /\ "route" \in subscribed
    /\ LET r == handleRouteUpdate(updateRoute) IN
       /\ c' = r.sends
       /\ log' = Append(log, Entry("route", updateRoute, TRUE, TRUE, r, Sets))
    /\ UNCHANGED <<entry, flag, pc, link, addr, route, done, setup, subscribed,
                   enumerated, links, interfaces, newlyCreated, received>>

\* Faulty variant of the route case: a route notification that is neither
\* RTM_NEWROUTE nor RTM_DELROUTE makes the session return.
RecvRouteReturnsOnOther(updateRoute) ==
    /\ AtSelect
    /\ "route" \in subscribed
    /\ IF route
       THEN LET r == handleRouteUpdate(updateRoute) IN
            /\ c' = r.sends
            /\ log' = Append(log, Entry("route", updateRoute, TRUE, TRUE, r,
                                        Sets))
            /\ IF r.printed = "" THEN Return ELSE UNCHANGED <<pc, done>>
       ELSE /\ UNCHANGED <<c, pc, done>>
            /\ log' = Append(log, Dropped("route"))
    /\ UNCHANGED <<entry, flag, link, addr, route, setup, subscribed,
                   enumerated, links, interfaces, newlyCreated, received>>

\* case updateRoute := <-chRoute
RecvRoute(updateRoute) ==
    /\ AtSelect
    /\ "route" \in subscribed
    /\ IF route
       THEN LET r == handleRouteUpdate(updateRoute) IN
            /\ c' = r.sends
            /\ log' = Append(log, Entry("route", updateRoute, TRUE, TRUE, r,
                                        Sets))
       ELSE /\ UNCHANGED c
            /\ log' = Append(log, Dropped("route"))
    /\ UNCHANGED <<entry, flag, pc, link, addr, route, done, setup, subscribed,
                   enumerated, links, interfaces, newlyCreated, received>>

\* The consumer receives from c: the pending send of the session completes.
Consume ==
    /\ pc = "loop"
    /\ c > 0
    /\ c' = c - 1
    /\ received' = received + 1
    /\ UNCHANGED <<entry, flag, pc, link, addr, route, done, setup, subscribed,
                   enumerated, links, interfaces, newlyCreated, log>>

\* StartMonitoring, every notification drawn when the select takes it.
Next ==
    \/ Start /\ UNCHANGED streams
    \/ AddrSubscribe /\ UNCHANGED streams
    \/ LinkSubscribe /\ UNCHANGED streams
    \/ RouteSubscribe /\ UNCHANGED streams
    \/ LinkList /\ UNCHANGED streams
    \/ \E u \in LinkUpdates : RecvLink(u) /\ UNCHANGED streams
    \/ \E u \in AddrUpdates : RecvAddr(u) /\ UNCHANGED streams
    \/ \E u \in RouteUpdates : RecvRoute(u) /\ UNCHANGED streams
    \/ Consume /\ UNCHANGED streams

Spec == Init /\ [][Next]_vars

-----------------------------------------------------------------------------
(* startMonitoring, the entry point without a flag *)

\* The creation of the channels and the three defers.  startMonitoring has
\* no switch and no booleans: it handles every class, which the model
\* records as the three booleans being true.
StartUnmasked ==
    /\ pc = "start"
    /\ link' = TRUE
    /\ addr' = TRUE
    /\ route' = TRUE
    /\ done' = [k \in Classes |-> "open"]
    /\ pc' = "AddrSubscribe"
    /\ UNCHANGED <<entry, flag, setup, subscribed, enumerated, links,
                   interfaces, newlyCreated, c, received, log>>

\* case updateLink := <-chLink
RecvLinkUnmasked(updateLink) ==
    /\ AtSelect
    /\ "link" \in subscribed
    /\ LET r == handleLinkUpdate(updateLink, interfaces, newlyCreated) IN
       /\ interfaces' = r.interfaces
       /\ newlyCreated' = r.newlyCreated
       /\ c' = r.sends
       /\ log' = Append(log, Entry("link", updateLink, TRUE, TRUE, r,
                   [interfaces |-> r.interfaces,
                    newlyCreated |-> r.newlyCreated]))
    /\ UNCHANGED <<entry, flag, pc, link, addr, route, done, setup, subscribed,
                   enumerated, links, received>>

\* Faulty variant of the address case of startMonitoring: the event is
\* dropped.
RecvAddrUnmaskedDrops(updateAddr) ==
    /\ AtSelect
    /\ "addr" \in subscribed
    /\ log' = Append(log, Dropped("addr"))
    /\ UNCHANGED <<entry, flag, pc, link, addr, route, done, setup, subscribed,
                   enumerated, links, interfaces, newlyCreated, c, received>>

\* case updateAddr := <-chAddr
RecvAddrUnmasked(updateAddr) ==
    /\ AtSelect
    /\ "addr" \in subscribed
    /\ \E err \in BOOLEAN :
          LET r == handleAddrUpdate(updateAddr, err) IN
          /\ c' = r.sends
          /\ log' = Append(log, Entry("addr", updateAddr, TRUE, ~err, r, Sets))
    /\ UNCHANGED <<entry, flag, pc, link, addr, route, done, setup, subscribed,
                   enumerated, links, interfaces, newlyCreated, received>>

\* case updateRoute := <-chRoute
RecvRouteUnmasked(updateRoute) ==
    /\ AtSelect
    /\ "route" \in subscribed
    /\ LET r == handleRouteUpdate(updateRoute) IN
       /\ c' = r.sends
       /\ log' = Append(log, Entry("route", updateRoute, TRUE, TRUE, r, Sets))
    /\ UNCHANGED <<entry, flag, pc, link, addr, route, done, setup, subscribed,
                   enumerated, links, interfaces, newlyCreated, received>>

\* startMonitoring, every notification drawn when the select takes it.  The
\* subscribe calls, the enumeration and send are the same statements as in
\* StartMonitoring.
NextUnmasked ==
    \/ StartUnmasked /\ UNCHANGED streams
    \/ AddrSubscribe /\ UNCHANGED streams
    \/ LinkSubscribe /\ UNCHANGED streams
    \/ RouteSubscribe /\ UNCHANGED streams
    \/ LinkList /\ UNCHANGED streams
    \/ \E u \in LinkUpdates : RecvLinkUnmasked(u) /\ UNCHANGED streams
    \/ \E u \in AddrUpdates : RecvAddrUnmasked(u) /\ UNCHANGED streams
    \/ \E u \in RouteUpdates : RecvRouteUnmasked(u) /\ UNCHANGED streams
    \/ Consume /\ UNCHANGED streams

\* A call of either entry point (startMonitoring takes no flag: 0 stands for
\* its absence and is not read).
InitAll ==
    /\ \/ entry = "StartMonitoring" /\ flag \in Flags
       \/ entry = "startMonitoring" /\ flag = 0
    /\ Fresh
    /\ NoStreams

NextAll ==
    \/ entry = "StartMonitoring" /\ Next
    \/ entry = "startMonitoring" /\ NextUnmasked

\* The sessions of both entry points.
SpecAll == InitAll /\ [][NextAll]_vars

\* A call of StartMonitoring(c, 7) in which each step is taken by the code of
\* either entry point.
InitEither ==
    /\ entry = "StartMonitoring"
    /\ flag = 7
    /\ Fresh
    /\ NoStreams

NextEither ==
    \/ Next
    \/ NextUnmasked

SpecEither == InitEither /\ [][NextEither]_vars

-----------------------------------------------------------------------------
(* The session with its streams: notifications are delivered by the host *)
(* when they happen and taken by the select later                        *)

\* Notifications delivered and not yet taken.
Pending == Len(ch.link) + Len(ch.addr) + Len(ch.route)

\* A subscription receives a notification if it is established and not
\* cancelled.  The bound counts the notifications delivered, taken or not.
Receives(class) ==
    /\ class \in subscribed
    /\ done[class] = "open"
    /\ Len(log) + Pending < MaxEvents

Deliver(class, update) ==
    /\ Receives(class)
    /\ ch' = [ch EXCEPT ![class] = Append(@, update)]

\* An interface is created on the host, with the up flag set or clear.  The
\* link subscription, if established, receives its RTM_NEWLINK.
HostCreate(n, up) ==
    /\ pc # "returned"
    /\ n \notin host
    /\ host' = host \cup {n}
    /\ IF "link" \in subscribed
       THEN /\ Deliver("link",
                       [Type |-> "RTM_NEWLINK", Name |-> n, Up |-> up])
            /\ born' = born \cup {n}
       ELSE UNCHANGED <<ch, born>>
    /\ UNCHANGED session

\* An interface of the host changes (its flags or another attribute): an
\* RTM_NEWLINK with the up flag as it is now.
HostChange(n, up) ==
    /\ n \in host
    /\ Deliver("link", [Type |-> "RTM_NEWLINK", Name |-> n, Up |-> up])
    /\ UNCHANGED <<session, host, born>>

DeliverAddr(updateAddr) ==
    /\ Deliver("addr", updateAddr)
    /\ UNCHANGED <<session, host, born>>

DeliverRoute(updateRoute) ==
    /\ Deliver("route", updateRoute)
    /\ UNCHANGED <<session, host, born>>

\* netlink.LinkList() returns the interfaces that exist on the host now.
LinkListOfHost ==
    /\ LinkList
    /\ pc' = "loop" => links' = host
    /\ UNCHANGED streams

\* The oldest notification of a stream is handed over to the select.
Handover(class) ==
    /\ ch[class] # <<>>
    /\ ch' = [ch EXCEPT ![class] = Tail(@)]
    /\ UNCHANGED <<host, born>>

TakeLink ==
    /\ Handover("link")
    /\ RecvLink(Head(ch.link))

\* Faulty variant of the address case: it is chosen only when a route
\* notification is ready too.
TakeAddrWithRoute ==
    /\ ch.route # <<>>
    /\ Handover("addr")
    /\ RecvAddr(Head(ch.addr))

TakeAddr ==
    /\ Handover("addr")
    /\ RecvAddr(Head(ch.addr))

TakeRoute ==
    /\ Handover("route")
    /\ RecvRoute(Head(ch.route))

\* StartMonitoring is called on a host that has some interfaces already.
InitStreams ==
    /\ entry = "StartMonitoring"
    /\ flag \in Flags
    /\ Fresh
    /\ ch = [k \in Classes |-> <<>>]
    /\ host \in SUBSET Names
    /\ born = {}

NextStreams ==
    \/ Start /\ UNCHANGED streams
    \/ AddrSubscribe /\ UNCHANGED streams
    \/ LinkSubscribe /\ UNCHANGED streams
    \/ RouteSubscribe /\ UNCHANGED streams
    \/ LinkListOfHost
    \/ \E n \in Names, up \in BOOLEAN : HostCreate(n, up)
    \/ \E n \in Names, up \in BOOLEAN : HostChange(n, up)
    \/ \E u \in AddrUpdates : DeliverAddr(u)
    \/ \E u \in RouteUpdates : DeliverRoute(u)
    \/ TakeLink
    \/ TakeAddr
    \/ TakeRoute
    \/ Consume /\ UNCHANGED streams

SpecStreams == InitStreams /\ [][NextStreams]_vars

\* The consumer always eventually receives from c, and the select, which
\* chooses at random among the cases that are ready, does not leave out for
\* ever a case that is ready again and again.
Fairness ==
    /\ WF_vars(Consume /\ UNCHANGED streams)
    /\ SF_vars(TakeLink)
    /\ SF_vars(TakeAddr)
    /\ SF_vars(TakeRoute)

SpecFair == SpecStreams /\ Fairness

-----------------------------------------------------------------------------
(* Reading the history *)

Taken == 1..Len(log)

\* The class of a notification is enabled in this session.
ClassEnabled(class) ==
    CASE class = "link" -> link
      [] class = "addr" -> addr
      [] class = "route" -> route

\* The classes the documented table gives a flag (1 = link, 2 = address,
\* 4 = route, and their sums).
DocumentedClasses(f) ==
    IF f \in 1..7
    THEN (IF f % 2 = 1 THEN {"link"} ELSE {})
            \cup (IF (f \div 2) % 2 = 1 THEN {"addr"} ELSE {})
            \cup (IF (f \div 4) % 2 = 1 THEN {"route"} ELSE {})
    ELSE {}

\* GenericEvents the handlers have sent or started to send, over the history.
RECURSIVE SumSends(_)
SumSends(s) == IF s = <<>> THEN 0 ELSE s[1].sends + SumSends(Tail(s))

\* Entry e is a link notification about name n that handleLinkUpdate handled.
LinkOf(e, n) == e.class = "link" /\ e.handled /\ e.update.Name = n

\* ... an RTM_NEWLINK for a name the Existence Set did not hold: a link-add.
LinkAdd(e, n) ==
    LinkOf(e, n) /\ e.update.Type = "RTM_NEWLINK" /\ n \notin e.pre.interfaces

\* ... an RTM_NEWLINK for a name the Existence Set held: a link-modified.
LinkModified(e, n) ==
    LinkOf(e, n) /\ e.update.Type = "RTM_NEWLINK" /\ n \in e.pre.interfaces

\* ... an RTM_NEWLINK with the up flag set.
LinkUp(e, n) == LinkOf(e, n) /\ e.update.Type = "RTM_NEWLINK" /\ e.update.Up

\* ... an RTM_DELLINK.
LinkDelete(e, n) == LinkOf(e, n) /\ e.update.Type = "RTM_DELLINK"

\* The sets recorded after the last notification are the sets of the session.
PostIsCurrent == log # <<>> => log[Len(log)].post = Sets

-----------------------------------------------------------------------------
(* C1 *)

\* C1: every link event, every route event and every address event whose
\* index resolves, taken while its class is enabled, has exactly one send on c
\* (whatever branch handleLinkUpdate took), and the sends on c are exactly
\* those: the consumer has received, or the session is blocked sending, one
\* GenericEvent per such event and none else.
C1_OneSignalPerEvent ==
    /\ \A i \in Taken :
          (ClassEnabled(log[i].class)
              /\ (log[i].class = "addr" => log[i].resolved))
          => log[i].sends = 1
    /\ c \in {0, 1}
    /\ received + c = SumSends(log)
    /\ received + c =
          Cardinality({i \in Taken :
              ClassEnabled(log[i].class)
              /\ (log[i].class = "addr" => log[i].resolved)})

\* A link-add, the suppressed down of the same name and a route event have
\* been handled and the consumer has received three GenericEvents.
C1_Witness ==
    /\ Len(log) = 3
    /\ \E n \in Names :
          /\ LinkAdd(log[1], n)
          /\ LinkModified(log[2], n)
          /\ ~log[2].update.Up
          /\ log[2].printed = ""
    /\ log[3].class = "route" /\ log[3].handled
    /\ received = 3

-----------------------------------------------------------------------------
(* C2 *)

\* C2: for a valid flag that excludes a class, a notification of that class is
\* still taken from its stream (all three subscriptions are established in the
\* loop and the select takes it), its handler is not invoked, nothing is sent
\* for it and the two sets stay as they were.  With flag 3, a link-add, a
\* resolved address-add and a route-add give two signals and no third.
C2_ExcludedClassDropped ==
    /\ pc = "loop" => subscribed = Classes
    /\ AtSelect =>
          /\ \A u \in LinkUpdates : ENABLED RecvLink(u)
          /\ \A u \in AddrUpdates : ENABLED RecvAddr(u)
          /\ \A u \in RouteUpdates : ENABLED RecvRoute(u)
    /\ \A i \in Taken :
          (flag \in 1..7 /\ log[i].class \notin DocumentedClasses(flag))
          => /\ ~log[i].handled
             /\ log[i].sends = 0
             /\ log[i].printed = ""
             /\ log[i].post = log[i].pre
    /\ PostIsCurrent
    /\ (/\ flag = 3
        /\ Len(log) = 3
        /\ \E n \in Names : LinkAdd(log[1], n)
        /\ log[2].class = "addr" /\ log[2].resolved /\ log[2].update.NewAddr
        /\ log[3].class = "route")
       => /\ SumSends(log) = 2
          /\ received + c = 2
          /\ log[3].sends = 0

\* The scenario of flag 3 has run and the consumer has received both signals.
C2_Witness ==
    /\ flag = 3
    /\ Len(log) = 3
    /\ \E n \in Names : LinkAdd(log[1], n)
    /\ log[2].class = "addr" /\ log[2].resolved /\ log[2].update.NewAddr
    /\ log[3].class = "route"
    /\ ~log[3].handled
    /\ received = 2

-----------------------------------------------------------------------------
(* C3 *)

\* C3: with a flag outside 1..7 the session returns at once: no subscription
\* is established, the interfaces are not enumerated, no notification is taken
\* and nothing is sent on c.
C3_InvalidFlagReturns ==
    flag \notin 1..7
    => /\ pc \in {"start", "returned"}
       /\ subscribed = {}
       /\ ~enumerated
       /\ log = <<>>
       /\ c = 0
       /\ received = 0
       /\ interfaces = {} /\ newlyCreated = {}

\* StartMonitoring has returned on an invalid flag.
C3_Witness == flag \notin 1..7 /\ pc = "returned"

-----------------------------------------------------------------------------
(* C4 *)

\* C4: every name of the Newly-Created Set is in the Existence Set, in every
\* state of the session and in the sets recorded around every notification.
C4_NewlyCreatedSubset ==
    /\ newlyCreated \subseteq interfaces
    /\ \A i \in Taken :
          /\ log[i].pre.newlyCreated \subseteq log[i].pre.interfaces
          /\ log[i].post.newlyCreated \subseteq log[i].post.interfaces
    /\ PostIsCurrent

\* A name is in the Newly-Created Set while another was deleted after being
\* added.
C4_Witness ==
    /\ newlyCreated # {}
    /\ \E i \in Taken, n \in Names :
          LinkDelete(log[i], n) /\ n \in log[i].pre.newlyCreated

-----------------------------------------------------------------------------
(* C5 *)

\* C5 as stated: a name is in the Existence Set if and only if a link-add
\* notification for it has been processed and no link-delete notification for
\* it has been processed after that one.
C5_Original ==
    \A n \in Names :
       n \in interfaces
       <=> \E i \in Taken :
              /\ LinkOf(log[i], n)
              /\ log[i].update.Type = "RTM_NEWLINK"
              /\ \A j \in Taken : j > i => ~LinkDelete(log[j], n)

\* C5 as amended: a name is in the Existence Set if and only if either the
\* startup enumeration returned it and handleLinkUpdate has handled no
\* link-delete for it, or handleLinkUpdate has handled a link-add/modified
\* (RTM_NEWLINK) notification for it and no link-delete for it after that one.
C5_ExistenceSet ==
    \A n \in Names :
       n \in interfaces
       <=> \/ /\ n \in links
              /\ \A j \in Taken : ~LinkDelete(log[j], n)
           \/ \E i \in Taken :
                 /\ LinkOf(log[i], n)
                 /\ log[i].update.Type = "RTM_NEWLINK"
                 /\ \A j \in Taken : j > i => ~LinkDelete(log[j], n)

\* One name is known from the enumeration alone, the other was enumerated,
\* deleted and added again.
C5_Witness ==
    /\ Len(log) = 2
    /\ links = Names
    /\ interfaces = Names
    /\ \E n \in Names : LinkDelete(log[1], n) /\ LinkAdd(log[2], n)

-----------------------------------------------------------------------------
(* C6 *)

\* The link notifications about n handled from entry i to entry j that
\* printed line p.
Printed(i, j, n, p) ==
    {k \in i..j : LinkOf(log[k], n) /\ log[k].printed = p}

\* C6: when a link-add for a name and then an RTM_NEWLINK for it with the up
\* flag set are handled (with, in between, no link-delete and no other up
\* event for that name), exactly one "added" and exactly one "up" are printed
\* for the name from the one to the other, and afterwards the name is in the
\* Existence Set and not in the Newly-Created Set.
C6_AddThenUp ==
    /\ PostIsCurrent
    /\ \A n \in Names : \A i \in Taken : \A j \in Taken :
          (/\ i < j
           /\ LinkAdd(log[i], n)
           /\ LinkUp(log[j], n)
           /\ \A k \in (i + 1)..(j - 1) :
                 ~LinkDelete(log[k], n) /\ ~LinkUp(log[k], n))
          => /\ Cardinality(Printed(i, j, n, "Interface added")) = 1
             /\ Cardinality(Printed(i, j, n, "is up")) = 1
             /\ log[i].printed = "Interface added"
             /\ log[j].printed = "is up"
             /\ n \in log[j].post.interfaces
             /\ n \notin log[j].post.newlyCreated

\* A link-add, a modification with the flag clear and the up event of one
\* name have been handled.
C6_Witness ==
    /\ Len(log) = 3
    /\ \E n \in Names :
          /\ LinkAdd(log[1], n)
          /\ LinkModified(log[2], n) /\ ~log[2].update.Up
          /\ LinkUp(log[3], n)
          /\ n \in interfaces
          /\ n \notin newlyCreated

-----------------------------------------------------------------------------
(* C7 *)

\* C7: when a link-add for a name is handled and, before any event for that
\* name with the up flag set, an RTM_NEWLINK for it with the up flag clear is
\* handled, no "down" is printed for it and the name is in the Newly-Created
\* Set afterwards.
C7_DownSuppressed ==
    /\ PostIsCurrent
    /\ \A n \in Names : \A i \in Taken : \A j \in Taken :
          (/\ i < j
           /\ LinkAdd(log[i], n)
           /\ LinkOf(log[j], n)
           /\ log[j].update.Type = "RTM_NEWLINK"
           /\ ~log[j].update.Up
           /\ \A k \in (i + 1)..(j - 1) : ~LinkUp(log[k], n))
          => /\ log[j].printed # "is down"
             /\ n \in log[j].post.newlyCreated

\* A link-add of a name was followed by two modifications with the flag
\* clear, both suppressed.
C7_Witness ==
    /\ Len(log) = 3
    /\ \E n \in Names :
          /\ LinkAdd(log[1], n)
          /\ LinkModified(log[2], n) /\ ~log[2].update.Up
          /\ LinkModified(log[3], n) /\ ~log[3].update.Up
          /\ log[3].printed = ""
          /\ n \in newlyCreated

-----------------------------------------------------------------------------
(* C8 *)

\* C8: after handleLinkUpdate handles an RTM_DELLINK for a name, the name is
\* in neither set and every other name is where it was; a delete of a name in
\* neither set (a second delete, a name never known) changes neither set and
\* is handled like any other delete (printed, one send).
C8_DeleteIdempotent ==
    /\ PostIsCurrent
    /\ \A n \in Names : \A i \in Taken :
          LinkDelete(log[i], n)
          => /\ n \notin log[i].post.interfaces
             /\ n \notin log[i].post.newlyCreated
             /\ \A m \in Names \ {n} :
                   /\ m \in log[i].post.interfaces
                         <=> m \in log[i].pre.interfaces
                   /\ m \in log[i].post.newlyCreated
                         <=> m \in log[i].pre.newlyCreated
             /\ (n \notin log[i].pre.interfaces
                     /\ n \notin log[i].pre.newlyCreated)
                => log[i].post = log[i].pre
             /\ log[i].printed = "Interface removed"
             /\ log[i].sends = 1

\* A name in both sets was deleted twice while the other name stayed in both.
C8_Witness ==
    /\ Len(log) = 3
    /\ \E n \in Names : \E m \in Names \ {n} :
          /\ LinkAdd(log[1], m)
          /\ LinkDelete(log[2], n)
          /\ n \in log[2].pre.interfaces
          /\ LinkDelete(log[3], n)
          /\ m \in newlyCreated

-----------------------------------------------------------------------------
(* C9 *)

\* Entry e is an address event that handleAddrUpdate could not resolve.
Unresolved(e) == e.class = "addr" /\ e.handled /\ ~e.resolved

\* C9: for an address event whose index does not resolve nothing is sent and
\* neither set changes, and the session goes on: it is back at the select, not
\* returned and not blocked in a send, so the next notification of any class
\* can be taken.
C9_UnresolvedAddrDropped ==
    /\ PostIsCurrent
    /\ \A i \in Taken :
          Unresolved(log[i])
          => /\ log[i].sends = 0
             /\ log[i].post = log[i].pre
             /\ pc = "loop"
             /\ i = Len(log) =>
                   /\ c = 0
                   /\ Len(log) < MaxEvents =>
                         /\ \A u \in LinkUpdates : ENABLED RecvLink(u)
                         /\ \A u \in AddrUpdates : ENABLED RecvAddr(u)
                         /\ \A u \in RouteUpdates : ENABLED RecvRoute(u)

\* After an unresolved address event a link event and a route event were
\* handled and their signals received.
C9_Witness ==
    /\ Len(log) = 3
    /\ Unresolved(log[1])
    /\ log[2].class = "link" /\ log[2].handled
    /\ log[3].class = "route" /\ log[3].handled
    /\ received = 2

-----------------------------------------------------------------------------
(* C10 *)

\* The history is the scenario: link-add("eth0"), then link-modified("eth0")
\* with the up flag clear, then link-modified("eth0") with the up flag set.
Scenario10 ==
    /\ flag = 1
    /\ Len(log) = 3
    /\ LinkAdd(log[1], "eth0")
    /\ LinkModified(log[2], "eth0") /\ ~log[2].update.Up
    /\ LinkModified(log[3], "eth0") /\ log[3].update.Up

\* C10: with flag 1 that scenario sends exactly three GenericEvents, prints
\* "added", then nothing, then "up", and leaves the Newly-Created Set empty.
C10_LinkOnlyScenario ==
    Scenario10
    => /\ SumSends(log) = 3
       /\ received + c = 3
       /\ \A i \in Taken : log[i].sends = 1
       /\ log[1].printed = "Interface added"
       /\ log[2].printed = ""
       /\ log[3].printed = "is up"
       /\ newlyCreated = {}

\* The scenario has run and the consumer has received the three signals.
C10_Witness == Scenario10 /\ received = 3

-----------------------------------------------------------------------------
(* C11 *)

\* C11: while a send on the unbuffered channel c is pending, the dispatcher
\* takes no notification from the link, address or route stream; the pending
\* send ends only by the consumer receiving it, and only then is the next
\* notification taken.
C11_BlockedWhileSendPending ==
    [][c > 0 => /\ log' = log
                /\ pc' = pc
                /\ c' # c => (c' = c - 1 /\ received' = received + 1)]_vars

\* A second send is pending after the consumer received the first one.
C11_Witness == c = 1 /\ received = 1 /\ Len(log) = 2

-----------------------------------------------------------------------------
(* C12 *)

\* The done channel of every established subscription is closed.
AllCancelled == \A k \in subscribed : done[k] = "closed"

\* C12: whenever a session of either entry point has returned, whatever the
\* step that made it return, the done channel of every subscription that was
\* established is closed.
C12_CancelledOnEveryExit == pc = "returned" => AllCancelled

\* startMonitoring has returned on the failure of the third subscription,
\* with the first two established.
C12_Witness ==
    /\ entry = "startMonitoring"
    /\ pc = "returned"
    /\ subscribed = {"addr", "link"}
    /\ setup[Len(setup)] = [call |-> "RouteSubscribe", err |-> TRUE]

-----------------------------------------------------------------------------
(* C13 *)

\* The setup steps in the order of the code.
SetupOrder == <<"AddrSubscribe", "LinkSubscribe", "RouteSubscribe", "LinkList">>

SetupFailed == \E i \in 1..Len(setup) : setup[i].err

\* C13: in a session of either entry point, the setup calls are made in the
\* order of the code, each at most once; a call that fails is the last one
\* made (no retry, no later setup step), the session has returned in the step
\* of the failure and takes no step afterwards, it has taken no notification
\* and no GenericEvent was sent or received on c.
C13_SetupFailureIsFatal ==
    /\ Len(setup) <= Len(SetupOrder)
    /\ \A i \in 1..Len(setup) :
          /\ setup[i].call = SetupOrder[i]
          /\ setup[i].err =>
                /\ i = Len(setup)
                /\ pc = "returned"
                /\ log = <<>>
                /\ c = 0
                /\ received = 0
    /\ SetupFailed => ~ENABLED NextAll

\* The enumeration has failed after the three subscriptions succeeded.
C13_Witness ==
    /\ Len(setup) = 4
    /\ setup[4] = [call |-> "LinkList", err |-> TRUE]
    /\ subscribed = Classes
    /\ pc = "returned"

-----------------------------------------------------------------------------
(* C14 *)

\* The classes the switch enables for a flag.
SwitchClasses(f) ==
    LET sw == FlagSwitch(f) IN
    (IF sw.link THEN {"link"} ELSE {})
        \cup (IF sw.addr THEN {"addr"} ELSE {})
        \cup (IF sw.route THEN {"route"} ELSE {})

\* C14: for every flag in 1..7 the switch enables the classes of the
\* documented table (link iff bit 0, address iff bit 1, route iff bit 2), the
\* seven flags give the seven non-empty subsets of the classes, and in a
\* session of StartMonitoring with such a flag the enabled classes are those
\* of the table in every state after the switch (the table itself is
\* evaluated once, before the first statement): the three booleans hold
\* them, and a notification taken at any point of the session is handled
\* exactly if its class is one of them.
C14_FlagTable ==
    /\ pc = "start" =>
          /\ \A f \in 1..7 : SwitchClasses(f) = DocumentedClasses(f)
          /\ {SwitchClasses(f) : f \in 1..7} = (SUBSET Classes) \ {{}}
    /\ (flag \in 1..7 /\ pc # "start") =>
          /\ {k \in Classes : ClassEnabled(k)} = DocumentedClasses(flag)
          /\ \A i \in Taken :
                log[i].handled <=> log[i].class \in DocumentedClasses(flag)

\* Flag 5: a link and a route notification were handled, an address
\* notification between them was dropped.
C14_Witness ==
    /\ flag = 5
    /\ link /\ ~addr /\ route
    /\ Len(log) = 3
    /\ log[1].class = "link" /\ log[1].handled
    /\ log[2].class = "addr" /\ ~log[2].handled
    /\ log[3].class = "route" /\ log[3].handled

-----------------------------------------------------------------------------
(* C15 *)

\* The stated policy for an RTM_NEWLINK about name n: ifs and nc are the
\* Existence Set and the Newly-Created Set before, r is what the handler
\* left and printed.
NewLinkPolicy(n, up, ifs, nc, r) ==
    /\ n \notin ifs =>
          /\ r.interfaces = ifs \cup {n}
          /\ r.newlyCreated = nc \cup {n}
          /\ r.printed = "Interface added"
    /\ (n \in ifs /\ up) =>
          /\ r.interfaces = ifs
          /\ r.newlyCreated = nc \ {n}
          /\ r.printed = "is up"
    /\ (n \in ifs /\ ~up /\ n \in nc) =>
          /\ r.interfaces = ifs
          /\ r.newlyCreated = nc
          /\ r.printed = ""
    /\ (n \in ifs /\ ~up /\ n \notin nc) =>
          /\ r.interfaces = ifs
          /\ r.newlyCreated = nc
          /\ r.printed = "is down"

\* C15: handleLinkUpdate follows the policy on an RTM_NEWLINK for every name,
\* every up flag and every pair of sets, those no session reaches included
\* (a name in the Newly-Created Set and not in the Existence Set), which is
\* evaluated once, before the first statement; and every
\* RTM_NEWLINK a session has handled was handled by the policy, on the sets
\* the session held.
C15_NewLinkPolicy ==
    /\ pc = "start" =>
          \A u \in LinkUpdates, ifs \in SUBSET Names, nc \in SUBSET Names :
             u.Type = "RTM_NEWLINK" =>
                NewLinkPolicy(u.Name, u.Up, ifs, nc,
                              handleLinkUpdate(u, ifs, nc))
    /\ \A i \in Taken :
          (log[i].class = "link" /\ log[i].handled
              /\ log[i].update.Type = "RTM_NEWLINK") =>
             NewLinkPolicy(log[i].update.Name, log[i].update.Up,
                           log[i].pre.interfaces, log[i].pre.newlyCreated,
                           [interfaces |-> log[i].post.interfaces,
                            newlyCreated |-> log[i].post.newlyCreated,
                            printed |-> log[i].printed])

\* With eth9 enumerated at startup: eth0 is added, its down is suppressed,
\* and the down of eth9 is classified.
C15_Witness ==
    /\ links = {"eth9"}
    /\ Len(log) = 3
    /\ log[1].printed = "Interface added" /\ log[1].update.Name = "eth0"
    /\ log[2].class = "link" /\ log[2].handled /\ log[2].printed = ""
    /\ log[2].update = [Type |-> "RTM_NEWLINK", Name |-> "eth0", Up |-> FALSE]
    /\ log[3].printed = "is down" /\ log[3].update.Name = "eth9"

-----------------------------------------------------------------------------
(* C16 *)

\* This step takes a notification; NewEntry is its entry of the history.
Takes == Len(log') = Len(log) + 1

NewEntry == log'[Len(log')]

\* C16: a step that takes an address notification, resolved or not, or a
\* route notification of any type, leaves the Existence Set and the
\* Newly-Created Set as they were; a step that changes either set is the
\* startup enumeration or a link notification given to handleLinkUpdate,
\* which leaves the sets handleLinkUpdate computes; and a handled route
\* notification sends one GenericEvent whatever the two sets hold.
C16_SetsChangedByLinkOnly ==
    [][/\ (Takes /\ NewEntry.class \in {"addr", "route"}) =>
             UNCHANGED <<interfaces, newlyCreated>>
       /\ (Takes /\ NewEntry.class = "route" /\ NewEntry.handled) =>
             c' = 1
       /\ <<interfaces, newlyCreated>>' # <<interfaces, newlyCreated>> =>
             \/ pc = "LinkList" /\ pc' = "loop"
             \/ /\ Takes
                /\ NewEntry.class = "link"
                /\ NewEntry.handled
                /\ LET r == handleLinkUpdate(NewEntry.update, interfaces,
                                             newlyCreated) IN
                   /\ interfaces' = r.interfaces
                   /\ newlyCreated' = r.newlyCreated]_vars

\* After eth0 was added, an address that could not be resolved and a route
\* were taken: eth0 is still in both sets.
C16_Witness ==
    /\ Len(log) = 3
    /\ log[1].printed = "Interface added" /\ log[1].update.Name = "eth0"
    /\ log[2].class = "addr" /\ log[2].handled /\ ~log[2].resolved
    /\ log[3].class = "route" /\ log[3].handled
    /\ interfaces = links \cup {"eth0"}
    /\ newlyCreated = {"eth0"}

-----------------------------------------------------------------------------
(* C17 *)

\* C17: from the state before the first statement, every step the code of
\* StartMonitoring(c, 7) can take is a step the code of startMonitoring can
\* take on the same subscription outcome, enumeration result or notification
\* and it leaves the same state (the two sets, the line printed, the sends on
\* c, all of the history), and conversely.  The two functions have separate
\* copies of the three handlers and of send; the copies are the same text,
\* which the model gives one definition each.
C17_EntryPointsEquivalent == [][Next <=> NextUnmasked]_vars

\* Either entry point has handled a link, an address and a route
\* notification.
C17_Witness ==
    /\ flag = 7
    /\ Len(log) = 3
    /\ log[1].class = "link" /\ log[1].printed = "Interface added"
    /\ log[2].class = "addr" /\ log[2].handled /\ log[2].resolved
    /\ log[3].class = "route" /\ log[3].handled
    /\ c = 1
    /\ received = 2

-----------------------------------------------------------------------------
(* C18 *)

\* C18, as stated: for an interface created on the host while the link
\* subscription is established, every "is down" the session has printed for
\* it comes after a link notification for it with the up flag that the
\* session handled.  It fails: an interface created between LinkSubscribe
\* and LinkList is in the result of LinkList, so interfaces holds it and
\* newlyCreated does not when its RTM_NEWLINK, queued since the creation, is
\* taken; with the up flag clear the notification is printed as "is down".
C18_Original ==
    \A n \in born : \A i \in Taken :
       (LinkOf(log[i], n) /\ log[i].printed = "is down") =>
          \E j \in 1..(i - 1) : LinkUp(log[j], n)

-----------------------------------------------------------------------------
(* C19 *)

-----------------------------------------------------------------------------
(* C20 *)

\* The three subscriptions and the enumeration were made and none failed.
SetupSucceeded ==
    /\ Len(setup) = Len(SetupOrder)
    /\ \A i \in 1..Len(setup) : ~setup[i].err

\* C20: in a session of either entry point whose three subscriptions and
\* enumeration succeeded, the session is in its loop and the three done
\* channels are open, in every state that follows, whatever was taken and
\* whether or not the consumer received; a done channel is closed only in a
\* session one of whose setup calls failed.  (The consumer of the model
\* receives from c or leaves it; the loop has no return and no break.)
C20_NoReturnAfterSetup ==
    /\ SetupSucceeded => (pc = "loop" /\ \A k \in Classes : done[k] = "open")
    /\ (\E k \in Classes : done[k] = "closed") => SetupFailed

\* startMonitoring after a successful setup: every notification the bound
\* allows was taken, the consumer has not received the last GenericEvent.
C20_Witness ==
    /\ entry = "startMonitoring"
    /\ SetupSucceeded
    /\ Len(log) = MaxEvents
    /\ log[Len(log)].class = "route"
    /\ c = 1
    /\ pc = "loop"

=============================================================================
